---- MODULE Spec2Model ----
(***************************************************************************)
(* Visibility resolution (main.py, SVGSegmenter.process_svg_file) and      *)
(* containment hierarchy construction (build_hierarchy.py,                 *)
(* hierarchy_png.py) of the SVG segmentation pipeline.                     *)
(*                                                                         *)
(* Geometry.  A polygon is the set of the cells <<x, y>> of a rectilinear  *)
(* grid that it covers.  Column 0 of the grid is a sliver: a cell of that  *)
(* column has an area below the epsilon of process_svg_file, every other   *)
(* cell is one square pixel.  Areas are counted in units of 1e-4 square    *)
(* pixels, so that the epsilon 1e-3 is the integer EPS.                    *)
(***************************************************************************)
EXTENDS Integers, Sequences, FiniteSets, TLC

VARIABLES pc, elements, idx, out, id_counter, segments, policy, child,
          files, done, exported, delay, total_waited, log

vars == <<pc, elements, idx, out, id_counter, segments, policy, child,
          files, done, exported, delay, total_waited, log>>

\* the inputs still to be read, the scenes already processed, the exported forests
xvars == <<files, done, exported>>

\* the back-off state of a request and the trace of what was run
zvars == <<delay, total_waited, log>>

\* ------------------------------------------------------------ bounds
\* columns 0..GridW of the grid on which the input rectangles are drawn
GridW == 3
\* largest number of elements of a scene, and of segments of a folder
MaxRegions == 3

\* ------------------------------------------------------------ geometry
\* polygon.area < 1e-3 (main.py:138), in units of 1e-4
EPS == 10

UnitArea == EPS * 1000

SliverArea == EPS \div 2

CellArea(c) == IF c[1] = 0 THEN SliverArea ELSE UnitArea

RECURSIVE Area(_)
Area(p) ==
    IF p = {} THEN 0
    ELSE LET c == CHOOSE c \in p : TRUE
             col == {d \in p : d[1] = c[1]}
         IN  Cardinality(col) * CellArea(c) + Area(p \ col)

\* <rect x y width height>: Polygon([(x,y),(x+w,y),(x+w,y+h),(x,y+h)])
Rect(x, y, w, h) ==
    {<<i, j>> : i \in x .. (x + w - 1), j \in y .. (y + h - 1)}

\* the rectangles of row 1 that lie in columns 0..GridW
Rects ==
    {Rect(x, 1, w, 1) : x \in 0 .. GridW, w \in 1 .. (GridW + 1)}
        \cap SUBSET ((0 .. GridW) \X {1})

is_empty(p) == p = {}

\* a union that keeps the last polygon only
unary_union_last(polys) == IF polys = <<>> THEN {} ELSE polys[Len(polys)]

\* a union that looks at the first polygon only
unary_union_first(polys) == IF polys = <<>> THEN {} ELSE Head(polys)

RECURSIVE unary_union(_)
unary_union(polys) ==
    IF polys = <<>> THEN {} ELSE Head(polys) \cup unary_union(Tail(polys))

covers(mask, p) == p \subseteq mask

\* a difference that subtracts nothing
difference_keep(p, mask) == p

\* the symmetric difference
difference_symmetric(p, mask) == (p \ mask) \cup (mask \ p)

difference(p, mask) == p \ mask

\* ------------------------------------------------------------ main.py
\* slices that start one element late, one element early
upper_polygons_late(els, i) == SubSeq(els, i + 2, Len(els))

upper_polygons_with_self(els, i) == SubSeq(els, i, Len(els))

\* a slice that holds the next element only
upper_polygons_next(els, i) == IF i < Len(els) THEN <<els[i + 1]>> ELSE <<>>

\* upper_polygons = [e['polygon'] for e in elements[idx+1:] if e['polygon']]
\* (idx is 1-based here; every polygon of elements is non-empty)
upper_polygons(els, i) == SubSeq(els, i + 1, Len(els))

\* lines 131-137: the polygon that reaches the test of line 138, or
\* "covered" when line 134 takes the continue
FullyCovered(els, i) ==
    /\ upper_polygons(els, i) # <<>>
    /\ covers(unary_union(upper_polygons(els, i)), els[i])

Residual(els, i) ==
    IF upper_polygons(els, i) # <<>>
    THEN difference(els[i], unary_union(upper_polygons(els, i)))
    ELSE els[i]

\* a test that forgets the epsilon
TooSmall_empty_only(p) == is_empty(p)

\* line 138
TooSmall(p) == is_empty(p) \/ Area(p) < EPS

\* a counter that is never incremented
generate_unique_id_stuck(counter) == counter

\* generate_unique_id('element'): the counter after the call
generate_unique_id(counter) == counter + 1

\* scenes: the list `elements` built by lines 117-126
Scenes ==
    UNION {[1 .. n -> Rects] : n \in 0 .. MaxRegions}

InitVis ==
    /\ pc = "resolve"
    /\ elements \in Scenes
    /\ idx = 1
    /\ out = <<>>
    /\ id_counter = 0
    /\ segments = <<>>
    /\ policy = "none"
    /\ child = 0
    /\ files = <<>>
    /\ done = <<>>
    /\ exported = <<>>
    /\ delay = 0
    /\ total_waited = 0
    /\ log = <<>>

\* line 134-136: the element is fully covered by what is painted after it
SkipCovered ==
    /\ pc = "resolve"
    /\ idx <= Len(elements)
    /\ FullyCovered(elements, idx)
    /\ idx' = idx + 1
    /\ UNCHANGED <<pc, elements, out, id_counter, segments, policy, child, xvars, zvars>>

\* line 138-140: the residual is empty or below the epsilon
SkipSmall ==
    /\ pc = "resolve"
    /\ idx <= Len(elements)
    /\ ~FullyCovered(elements, idx)
    /\ TooSmall(Residual(elements, idx))
    /\ idx' = idx + 1
    /\ UNCHANGED <<pc, elements, out, id_counter, segments, policy, child, xvars, zvars>>

\* the cells of the bounding box of p and of a frame of one cell around it
Frame(p) ==
    LET xs == {c[1] : c \in p}
        ys == {c[2] : c \in p}
        x0 == CHOOSE x \in xs : \A v \in xs : x <= v
        x1 == CHOOSE x \in xs : \A v \in xs : x >= v
        y0 == CHOOSE y \in ys : \A v \in ys : y <= v
        y1 == CHOOSE y \in ys : \A v \in ys : y >= v
    IN  {<<i, j>> : i \in (x0 - 1) .. (x1 + 1), j \in (y0 - 1) .. (y1 + 1)}

\* the cells of `free` joined to the cells of `seen` by a chain of cells of
\* `free` that share an edge; `front` holds the cells added last
RECURSIVE Flood(_, _, _)
Flood(front, seen, free) ==
    LET more == {c \in free \ seen :
                    \E d \in front : \/ (d[1] = c[1] /\ d[2] - c[2] \in {-1, 1})
                                     \/ (d[2] = c[2] /\ d[1] - c[1] \in {-1, 1})}
    IN  IF more = {} THEN seen ELSE Flood(more, seen \cup more, free)

\* the cells outside the exterior rings of p, inside the frame
Outside(p) ==
    LET free == Frame(p) \ p
        start == CHOOSE c \in free : \A d \in free : c[1] <= d[1] /\ c[2] <= d[2]
    IN  Flood({start}, {start}, free)

\* a path that repeats the polygon, holes included
polygon_to_pathdata_with_holes(polygon) == polygon

\* polygon_to_pathdata, lines 83-88: one closed sub-path along the exterior
\* ring of every part; interior rings are not written.  The value is the set
\* of the cells that the written path encloses.
polygon_to_pathdata(polygon) ==
    IF polygon = {} THEN {} ELSE Frame(polygon) \ Outside(polygon)

\* lines 141-151: the segment file of the element is written
EmitSegment ==
    /\ pc = "resolve"
    /\ idx <= Len(elements)
    /\ ~FullyCovered(elements, idx)
    /\ ~TooSmall(Residual(elements, idx))
    /\ id_counter' = generate_unique_id(id_counter)
    /\ out' = Append(out, [src |-> idx,
                           polygon |-> Residual(elements, idx),
                           id |-> generate_unique_id(id_counter),
                           d |-> polygon_to_pathdata(Residual(elements, idx))])
    /\ idx' = idx + 1
    /\ UNCHANGED <<pc, elements, segments, policy, child, xvars, zvars>>

\* the loop of line 128 is exhausted
FinishScene ==
    /\ pc = "resolve"
    /\ idx > Len(elements)
    /\ pc' = "resolved"
    /\ UNCHANGED <<elements, idx, out, id_counter, segments, policy, child, xvars, zvars>>

NextVis == SkipCovered \/ SkipSmall \/ EmitSegment \/ FinishScene

SpecVis == InitVis /\ [][NextVis]_vars

\* ------------------------------------------------------------ visibility claims
\* the geometry of everything painted after element i
LaterUnion(i) == UNION {elements[j] : j \in (i + 1) .. Len(elements)}

\* the elements that have a segment in the output
Srcs == {out[k].src : k \in DOMAIN out}

\* what is left of element i under everything painted after it
Visible(i) == elements[i] \ LaterUnion(i)

\* C1: the visible geometry of every surviving region is its geometry minus
\* the union of the geometries of the regions painted after it, no more, no less
C1_VisibleIsDifference ==
    \A k \in DOMAIN out :
        out[k].polygon = elements[out[k].src] \ LaterUnion(out[k].src)

C1_Witness ==
    /\ pc = "resolved"
    /\ \E k \in DOMAIN out :
          /\ out[k].polygon # elements[out[k].src]
          /\ out[k].src < Len(elements) - 1

\* C2 (as stated): a region covered by the union of the later regions is not
\* in the output, and a later region of the same extent is in the output
C2_CoveredDroppedCovererKept ==
    pc = "resolved" =>
        \A i \in DOMAIN elements :
            elements[i] \subseteq LaterUnion(i) =>
                /\ i \notin Srcs
                /\ \A j \in (i + 1) .. Len(elements) :
                      elements[j] = elements[i] => j \in Srcs

\* C2 (amended): a region covered by the union of the later regions is not in
\* the output; a later region of the same extent is in the output exactly when
\* what the regions painted after it leave of it has an area of at least the
\* epsilon
C2_CoveredDroppedCovererKeptIfVisible ==
    pc = "resolved" =>
        \A i \in DOMAIN elements :
            elements[i] \subseteq LaterUnion(i) =>
                /\ i \notin Srcs
                /\ \A j \in (i + 1) .. Len(elements) :
                      elements[j] = elements[i] =>
                          (j \in Srcs <=> Area(Visible(j)) >= EPS)

C2_Witness ==
    /\ pc = "resolved"
    /\ \E i \in DOMAIN elements : \E j \in (i + 1) .. Len(elements) :
          /\ elements[j] = elements[i]
          /\ i \notin Srcs
          /\ j \in Srcs

\* C3: the visible regions of a scene are pairwise non-overlapping: the
\* intersection of two of them has zero area
C3_NonOverlapping ==
    \A a, b \in DOMAIN out :
        a # b => Area(out[a].polygon \cap out[b].polygon) = 0

C3_Witness ==
    /\ pc = "resolved"
    /\ \E a, b \in DOMAIN out :
          /\ a # b
          /\ elements[out[a].src] \cap elements[out[b].src] # {}

\* C4: every emitted region has an area above 0, not below the epsilon and
\* not above the area of its original geometry; a residual below the epsilon
\* is never emitted
C4_AreaBounds ==
    /\ \A k \in DOMAIN out :
          /\ Area(out[k].polygon) > 0
          /\ Area(out[k].polygon) >= EPS
          /\ Area(out[k].polygon) <= Area(elements[out[k].src])
    /\ \A i \in DOMAIN elements : Area(Visible(i)) < EPS => i \notin Srcs

C4_Witness ==
    /\ pc = "resolved"
    /\ \E i \in DOMAIN elements :
          /\ Visible(i) # {}
          /\ Area(Visible(i)) < EPS
          /\ i \notin Srcs
    /\ \E k \in DOMAIN out :
          Area(out[k].polygon) < Area(elements[out[k].src])

\* no two regions of the scene overlap
NoOverlap ==
    \A i, j \in DOMAIN elements : i # j => elements[i] \cap elements[j] = {}

\* C5 (as stated): when no two regions overlap, every input region survives
\* with its original geometry
C5_DisjointUnchanged ==
    (pc = "resolved" /\ NoOverlap) =>
        /\ Len(out) = Len(elements)
        /\ \A k \in DOMAIN out :
              out[k].src = k /\ out[k].polygon = elements[k]

\* C5 (amended): when no two regions overlap, every input region whose area is
\* at least the epsilon survives with its original geometry, and a region
\* whose area is below the epsilon is dropped
C5_DisjointUnchangedAboveEps ==
    (pc = "resolved" /\ NoOverlap) =>
        \A i \in DOMAIN elements :
            IF Area(elements[i]) >= EPS
            THEN \E k \in DOMAIN out :
                    out[k].src = i /\ out[k].polygon = elements[i]
            ELSE i \notin Srcs

C5_Witness ==
    /\ pc = "resolved"
    /\ NoOverlap
    /\ Len(elements) = 3
    /\ Len(out) = 2

\* ------------------------------------------------------------ hierarchy
\* best_parent = None
None == -2

\* float("inf"): larger than the area of any polygon or box of the model
Inf == UnitArea * 10000

\* segment without bounding box ("bbox": None), without polygon
NoBox == <<>>

Abs(n) == IF n < 0 THEN -n ELSE n

\* shapely contains: no point of b outside a, and the interiors meet
contains(a, b) == b # {} /\ b \subseteq a

\* shapely intersects: the closed polygons share a point (a cell, an edge
\* or a corner)
intersects(a, b) ==
    \E ca \in a : \E cb \in b :
        Abs(ca[1] - cb[1]) <= 1 /\ Abs(ca[2] - cb[2]) <= 1

\* a comparison that lets every eligible candidate replace the best one
less_than_any(area, best_area) == TRUE

\* a comparison that lets a candidate of equal area replace the best one
less_or_equal(area, best_area) == area <= best_area

\* a comparison turned around
less_than_reversed(area, best_area) == area > best_area

\* `if area < best_area` (build_hierarchy.py:167, :207, hierarchy_png.py:281)
less_than(area, best_area) == area < best_area

\* lines 158-169 of build_hierarchy: the inner loop from candidate k on
RECURSIVE scan_contains(_, _, _, _, _)
scan_contains(segs, inner, k, best_parent, best_area) ==
    IF k > Len(segs) THEN best_parent
    ELSE LET outer == segs[k]
             area == Area(outer.polygon)
         IN  IF outer.id = inner.id
             THEN scan_contains(segs, inner, k + 1, best_parent, best_area)
             ELSE IF /\ contains(outer.polygon, inner.polygon)
                     /\ less_than(area, best_area)
                  THEN scan_contains(segs, inner, k + 1, outer.id, area)
                  ELSE scan_contains(segs, inner, k + 1, best_parent, best_area)

\* line 206 of build_hierarchy3
contains_or_intersects(candidate_poly, child_poly) ==
    contains(candidate_poly, child_poly) \/ intersects(candidate_poly, child_poly)

\* lines 191-209 of build_hierarchy3: the inner loop from candidate k on
RECURSIVE scan_intersects(_, _, _, _, _)
scan_intersects(segs, ch, k, best_parent, smallest_area) ==
    IF k > Len(segs) THEN best_parent
    ELSE LET candidate == segs[k]
             candidate_area == Area(candidate.polygon)
         IN  IF candidate.id = ch.id
             THEN scan_intersects(segs, ch, k + 1, best_parent, smallest_area)
             ELSE IF candidate_area <= Area(ch.polygon)
             THEN scan_intersects(segs, ch, k + 1, best_parent, smallest_area)
             ELSE IF /\ contains_or_intersects(candidate.polygon, ch.polygon)
                     /\ less_than(candidate_area, smallest_area)
                  THEN scan_intersects(segs, ch, k + 1, candidate.id, candidate_area)
                  ELSE scan_intersects(segs, ch, k + 1, best_parent, smallest_area)

\* load_all_segments: ids 0..n-1 in loading order, no parent yet
load_all_segments(polys) ==
    [k \in 1 .. Len(polys) |->
        [id |-> k - 1, polygon |-> polys[k], bbox |-> NoBox, parent |-> None]]

\* main of build_hierarchy.py skips a folder without segments
InitHier ==
    /\ pc = "init_parents"
    /\ policy \in {"strict", "intersects"}
    /\ segments \in {load_all_segments(polys) : polys \in Scenes \ {<<>>}}
    /\ child = 0
    /\ elements = <<>>
    /\ idx = 0
    /\ out = <<>>
    /\ id_counter = 0
    /\ files = <<>>
    /\ done = <<>>
    /\ exported = <<>>
    /\ delay = 0
    /\ total_waited = 0
    /\ log = <<>>

\* the value that stands for the root in the parent field
RootMark(pol) == IF pol = "strict" THEN -1 ELSE 0

\* the first loop of build_hierarchy (154-155), build_hierarchy3 (184-185)
\* and build_hierarchy_bbox (253-254)
InitParents ==
    /\ pc = "init_parents"
    /\ segments' = [k \in DOMAIN segments |->
                      [segments[k] EXCEPT !.parent = RootMark(policy)]]
    /\ child' = 1
    /\ pc' = "assign"
    /\ UNCHANGED <<elements, idx, out, id_counter, policy, xvars, zvars>>

\* one round of the loop of build_hierarchy, lines 157-172
build_hierarchy ==
    /\ pc = "assign"
    /\ policy = "strict"
    /\ child <= Len(segments)
    /\ LET best_parent == scan_contains(segments, segments[child], 1, None, Inf)
       IN  segments' = IF best_parent # None
                       THEN [segments EXCEPT ![child].parent = best_parent]
                       ELSE segments
    /\ child' = child + 1
    /\ UNCHANGED <<pc, elements, idx, out, id_counter, policy, xvars, zvars>>

\* one round of the loop of build_hierarchy3, lines 187-212
build_hierarchy3 ==
    /\ pc = "assign"
    /\ policy = "intersects"
    /\ child <= Len(segments)
    /\ LET best_parent == scan_intersects(segments, segments[child], 1, None, Inf)
       IN  segments' = [segments EXCEPT ![child].parent =
                           IF best_parent # None THEN best_parent ELSE 0]
    /\ child' = child + 1
    /\ UNCHANGED <<pc, elements, idx, out, id_counter, policy, xvars, zvars>>

\* return segments
BuildDone ==
    /\ pc = "assign"
    /\ child > Len(segments)
    /\ pc' = "built"
    /\ UNCHANGED <<elements, idx, out, id_counter, segments, policy, child, xvars, zvars>>

NextHier == InitParents \/ build_hierarchy \/ build_hierarchy3 \/ BuildDone

SpecHier == InitHier /\ [][NextHier]_vars

\* ------------------------------------------------------------ hierarchy_png.py
\* def build_hierarchy_bbox(segments, margin=5)
margin == 5

\* bounds of the bounding boxes (x, y, w, h) of the model
MaxCoord == 7

MaxSide == 8

Boxes ==
    {<<x, y, w, h>> : x \in {0, margin, MaxCoord}, y \in {0, MaxCoord},
                      w \in {1, 2, MaxSide}, h \in {1}}

\* a containment test without the margin on the left side
within_margin_no_left(c, p, m) ==
    /\ c[1] >= p[1]
    /\ c[2] >= p[2] - m
    /\ c[1] + c[3] <= p[1] + p[3] + m
    /\ c[2] + c[4] <= p[2] + p[4] + m

\* lines 278-280: the box c lies in the box p enlarged by m on each side
within_margin(c, p, m) ==
    /\ c[1] >= p[1] - m
    /\ c[2] >= p[2] - m
    /\ c[1] + c[3] <= p[1] + p[3] + m
    /\ c[2] + c[4] <= p[2] + p[4] + m

\* lines 260-283: the inner loop from candidate k on, for the margin m
RECURSIVE scan_bbox_margin(_, _, _, _, _, _)
scan_bbox_margin(segs, ch, k, best_parent, best_area, m) ==
    IF k > Len(segs) THEN best_parent
    ELSE LET candidate == segs[k]
             child_area == ch.bbox[3] * ch.bbox[4]
         IN  IF candidate.id = ch.id
             THEN scan_bbox_margin(segs, ch, k + 1, best_parent, best_area, m)
             ELSE IF candidate.bbox = NoBox
             THEN scan_bbox_margin(segs, ch, k + 1, best_parent, best_area, m)
             ELSE IF candidate.bbox[3] * candidate.bbox[4] <= child_area
             THEN scan_bbox_margin(segs, ch, k + 1, best_parent, best_area, m)
             ELSE IF /\ within_margin(ch.bbox, candidate.bbox, m)
                     /\ less_than(candidate.bbox[3] * candidate.bbox[4], best_area)
                  THEN scan_bbox_margin(segs, ch, k + 1, candidate.id,
                                        candidate.bbox[3] * candidate.bbox[4], m)
                  ELSE scan_bbox_margin(segs, ch, k + 1, best_parent, best_area, m)

\* the inner loop with the default margin of line 249
scan_bbox(segs, ch, k, best_parent, best_area) ==
    scan_bbox_margin(segs, ch, k, best_parent, best_area, margin)

\* load_png_segments: the full-image segment (id 0, no bbox, parent -1), then
\* one segment per PNG with ids from 1 and no parent yet
load_png_segments(boxes) ==
    [k \in 1 .. (Len(boxes) + 1) |->
        IF k = 1
        THEN [id |-> 0, polygon |-> {}, bbox |-> NoBox, parent |-> -1]
        ELSE [id |-> k - 1, polygon |-> {}, bbox |-> boxes[k - 1], parent |-> None]]

InitBbox ==
    /\ pc = "init_parents"
    /\ policy = "bbox"
    /\ segments \in {load_png_segments(boxes) :
                        boxes \in UNION {[1 .. n -> Boxes] : n \in 0 .. MaxRegions}}
    /\ child = 0
    /\ elements = <<>>
    /\ idx = 0
    /\ out = <<>>
    /\ id_counter = 0
    /\ files = <<>>
    /\ done = <<>>
    /\ exported = <<>>
    /\ delay = 0
    /\ total_waited = 0
    /\ log = <<>>

\* lines 257-258: a segment without bbox (the full image) is skipped
SkipNoBbox ==
    /\ pc = "assign"
    /\ policy = "bbox"
    /\ child <= Len(segments)
    /\ segments[child].bbox = NoBox
    /\ child' = child + 1
    /\ UNCHANGED <<pc, elements, idx, out, id_counter, segments, policy, xvars, zvars>>

\* one round of the loop of build_hierarchy_bbox, lines 256-286
build_hierarchy_bbox ==
    /\ pc = "assign"
    /\ policy = "bbox"
    /\ child <= Len(segments)
    /\ segments[child].bbox # NoBox
    /\ LET best_parent == scan_bbox(segments, segments[child], 1, None, Inf)
       IN  segments' = IF best_parent # None
                       THEN [segments EXCEPT ![child].parent = best_parent]
                       ELSE segments
    /\ child' = child + 1
    /\ UNCHANGED <<pc, elements, idx, out, id_counter, policy, xvars, zvars>>

NextBbox == InitParents \/ SkipNoBbox \/ build_hierarchy_bbox \/ BuildDone

SpecBbox == InitBbox /\ [][NextBbox]_vars

\* ------------------------------------------------------------ hierarchy claims
\* the positions of the regions in `segments` (the full-image segment of
\* hierarchy_png.py is the root, not a region)
RegionIdx ==
    {k \in DOMAIN segments : policy = "bbox" => segments[k].bbox # NoBox}

\* area of a region under the active policy
PolicyArea(s) ==
    IF policy = "bbox" THEN s.bbox[3] * s.bbox[4] ELSE Area(s.polygon)

\* the box p enlarged by m on each of its four sides contains the box c
EnlargedContains(p, c, m) ==
    LET ex == p[1] - m
        ey == p[2] - m
        ew == p[3] + 2 * m
        eh == p[4] + 2 * m
    IN  /\ ex <= c[1]
        /\ ey <= c[2]
        /\ c[1] + c[3] <= ex + ew
        /\ c[2] + c[4] <= ey + eh

\* the eligibility test of the active policy, as the specification words it
Eligible(par, s) ==
    CASE policy = "strict" -> s.polygon \subseteq par.polygon
      [] policy = "intersects" ->
            \/ s.polygon \subseteq par.polygon
            \/ \E a \in par.polygon : \E b \in s.polygon :
                  a[1] - b[1] \in -1 .. 1 /\ a[2] - b[2] \in -1 .. 1
      [] policy = "bbox" -> EnlargedContains(par.bbox, s.bbox, margin)

\* following the parent pointers from the segment with this id reaches the
\* root in at most `fuel` steps
RECURSIVE ReachesRoot(_, _)
ReachesRoot(id, fuel) ==
    /\ fuel > 0
    /\ \E k \in RegionIdx :
          /\ segments[k].id = id
          /\ \/ segments[k].parent = RootMark(policy)
             \/ /\ segments[k].parent # id
                /\ ReachesRoot(segments[k].parent, fuel - 1)

\* C6: under each policy the parent pointers form a forest with a single
\* root: every region has one parent, is not its own ancestor and reaches the
\* root by following parent pointers
C6_Forest ==
    pc = "built" =>
        \A k \in RegionIdx :
            /\ \/ segments[k].parent = RootMark(policy)
               \/ \E j \in RegionIdx : segments[j].id = segments[k].parent
            /\ ReachesRoot(segments[k].id, Len(segments))

\* C7: the parent of every region is the root, or it passes the eligibility
\* test of the active policy and its area is strictly greater than the region's
C7_ParentEligibleAndLarger ==
    pc = "built" =>
        \A k \in RegionIdx :
            \/ segments[k].parent = RootMark(policy)
            \/ \E j \in RegionIdx :
                  /\ segments[j].id = segments[k].parent
                  /\ Eligible(segments[j], segments[k])
                  /\ PolicyArea(segments[j]) > PolicyArea(segments[k])

\* the other regions whose polygon fully contains the polygon of region k
Containers(k) ==
    {j \in DOMAIN segments \ {k} :
        segments[k].polygon \subseteq segments[j].polygon}

\* the members of the set S of positions that have the least area
MinArea(S) ==
    {j \in S : \A i \in S : PolicyArea(segments[j]) <= PolicyArea(segments[i])}

\* C8: under the strict-polygon policy the parent of a region is a candidate of
\* minimum polygon area among the other regions that fully contain it, and
\* the root when no other region contains it
C8_StrictMinContainer ==
    (pc = "built" /\ policy = "strict") =>
        \A k \in DOMAIN segments :
            IF Containers(k) = {}
            THEN segments[k].parent = -1
            ELSE \E j \in MinArea(Containers(k)) :
                    segments[j].id = segments[k].parent

C8_Witness ==
    /\ pc = "built"
    /\ policy = "strict"
    /\ \E k \in DOMAIN segments :
          /\ Cardinality(Containers(k)) = 2
          /\ Cardinality(MinArea(Containers(k))) = 1
          /\ segments[k].parent # -1
    /\ \E k \in DOMAIN segments : Containers(k) = {} /\ segments[k].parent = -1

\* the strictly larger candidates that fully contain region k, and those that
\* intersect it
LargerContainers(k) ==
    {j \in Containers(k) : Area(segments[j].polygon) > Area(segments[k].polygon)}

LargerIntersecting(k) ==
    {j \in DOMAIN segments \ {k} :
        /\ Area(segments[j].polygon) > Area(segments[k].polygon)
        /\ \E a \in segments[j].polygon : \E b \in segments[k].polygon :
              a[1] - b[1] \in -1 .. 1 /\ a[2] - b[2] \in -1 .. 1}

\* C9: under the contains-or-intersects policy the parent is the minimum-area
\* strictly larger containing candidate whenever one exists; otherwise the
\* minimum-area strictly larger intersecting candidate; otherwise the root
C9_ContainsPreferred ==
    (pc = "built" /\ policy = "intersects") =>
        \A k \in DOMAIN segments :
            IF LargerContainers(k) # {}
            THEN \E j \in MinArea(LargerContainers(k)) :
                    segments[j].id = segments[k].parent
            ELSE IF LargerIntersecting(k) # {}
            THEN \E j \in MinArea(LargerIntersecting(k)) :
                    segments[j].id = segments[k].parent
            ELSE segments[k].parent = 0

\* the candidates eligible for region k under the bounding-box policy
EligibleBoxes(k) ==
    {j \in RegionIdx \ {k} :
        /\ EnlargedContains(segments[j].bbox, segments[k].bbox, margin)
        /\ segments[j].bbox[3] * segments[j].bbox[4]
              > segments[k].bbox[3] * segments[k].bbox[4]}

\* C10: under the bounding-box policy the parent of a region is a candidate of
\* minimum box area among the candidates whose box, enlarged by the margin on
\* each side, contains the region's box and is strictly larger in area, and
\* the root when there is none
C10_BboxMinEligible ==
    (pc = "built" /\ policy = "bbox") =>
        \A k \in RegionIdx :
            IF EligibleBoxes(k) = {}
            THEN segments[k].parent = 0
            ELSE \E j \in MinArea(EligibleBoxes(k)) :
                    segments[j].id = segments[k].parent

C10_Witness ==
    /\ pc = "built"
    /\ policy = "bbox"
    /\ \E k \in RegionIdx :
          /\ Cardinality(EligibleBoxes(k)) = 2
          /\ Cardinality(MinArea(EligibleBoxes(k))) = 1
          /\ \E j \in MinArea(EligibleBoxes(k)) :
                ~EnlargedContains(segments[j].bbox, segments[k].bbox, 0)
    /\ \E k \in RegionIdx :
          /\ EligibleBoxes(k) = {}
          /\ segments[k].parent = 0
          /\ \E j \in RegionIdx :
                segments[j].bbox[3] * segments[j].bbox[4]
                    > segments[k].bbox[3] * segments[k].bbox[4]

\* ------------------------------------------------------------ process_directory
\* largest number of SVG files of an input directory
MaxScenes == 2

\* largest number of elements of a file of the directory
DirRegions == 2

\* the rectangles of the sliver column and of the first pixel column
DirRects == {r \in Rects : r \subseteq {0, 1} \X {1}}

\* the scenes of the files of a directory
DirScenes == UNION {[1 .. n -> DirRects] : n \in 0 .. DirRegions}

\* svg_files is not empty (lines 162-164 return otherwise)
Dirs == UNION {[1 .. n -> DirScenes] : n \in 1 .. MaxScenes}

\* segmenter = SVGSegmenter(): one id counter for the whole directory
InitDir ==
    /\ pc = "next_file"
    /\ files \in Dirs
    /\ id_counter = 0
    /\ elements = <<>>
    /\ idx = 0
    /\ out = <<>>
    /\ done = <<>>
    /\ exported = <<>>
    /\ delay = 0
    /\ total_waited = 0
    /\ log = <<>>
    /\ segments = <<>>
    /\ policy = "none"
    /\ child = 0

\* lines 166-167 and 110-126: the next file is parsed into `elements`
StartScene ==
    /\ pc = "next_file"
    /\ files # <<>>
    /\ elements' = Head(files)
    /\ files' = Tail(files)
    /\ idx' = 1
    /\ out' = <<>>
    /\ pc' = "resolve"
    /\ UNCHANGED <<id_counter, segments, policy, child, done, exported, zvars>>

\* process_svg_file returns: the segments written for this file are final
EndScene ==
    /\ pc = "resolve"
    /\ idx > Len(elements)
    /\ done' = Append(done, [scene |-> elements, out |-> out])
    /\ pc' = "next_file"
    /\ UNCHANGED <<elements, idx, out, id_counter, segments, policy, child,
                   files, exported, zvars>>

\* the loop of line 166 is exhausted
DirDone ==
    /\ pc = "next_file"
    /\ files = <<>>
    /\ pc' = "dir_done"
    /\ UNCHANGED <<elements, idx, out, id_counter, segments, policy, child, xvars, zvars>>

NextDir ==
    \/ StartScene
    \/ SkipCovered
    \/ SkipSmall
    \/ EmitSegment
    \/ EndScene
    \/ DirDone

SpecDir == InitDir /\ [][NextDir]_vars

\* C11: the output of a scene, element ids included, is a function of the
\* scene alone: two files with the same scene get the same output, and the
\* ids of every scene are those a fresh segmenter gives, 1, 2, ...
C11_SceneOutputIndependent ==
    /\ \A a, b \in DOMAIN done :
          done[a].scene = done[b].scene => done[a].out = done[b].out
    /\ \A a \in DOMAIN done :
          \A k \in DOMAIN done[a].out : done[a].out[k].id = k

\* ------------------------------------------------------------ resolving twice
\* the visible regions of the resolved scene, in the same paint order, are
\* the elements of a second run of the loop of lines 128-151
Reresolve ==
    /\ pc = "resolved"
    /\ done = <<>>
    /\ done' = <<[scene |-> elements, out |-> out]>>
    /\ elements' = [k \in DOMAIN out |-> out[k].polygon]
    /\ idx' = 1
    /\ out' = <<>>
    /\ pc' = "resolve"
    /\ UNCHANGED <<id_counter, segments, policy, child, files, exported, zvars>>

NextTwice ==
    \/ SkipCovered
    \/ SkipSmall
    \/ EmitSegment
    \/ FinishScene
    \/ Reresolve

SpecTwice == InitVis /\ [][NextTwice]_vars

\* C12: resolving the visible regions of a resolved scene again, in the same
\* paint order, returns every region unchanged and drops none
C12_Idempotent ==
    (pc = "resolved" /\ done # <<>>) =>
        /\ Len(out) = Len(done[1].out)
        /\ \A k \in DOMAIN out :
              /\ out[k].src = k
              /\ out[k].polygon = done[1].out[k].polygon

C12_Witness ==
    /\ pc = "resolved"
    /\ done # <<>>
    /\ Len(out) >= 2
    /\ Len(done[1].scene) > Len(out)
    /\ \E k \in DOMAIN out : out[k].polygon # done[1].scene[done[1].out[k].src]

\* C13: the segments are written in paint order, an earlier-painted surviving
\* region has a smaller element id than a later-painted one, and no two
\* segments share an id
C13_OrderPreservedOnIds ==
    \A a, b \in DOMAIN out :
        a < b => (out[a].src < out[b].src /\ out[a].id < out[b].id)

C13_Witness ==
    /\ pc = "resolved"
    /\ Len(out) = 2
    /\ Len(elements) = 3
    /\ out[1].src = 1
    /\ out[2].src = 3

\* ------------------------------------------------------------ export (PNG path)
\* the ids of a set in ascending order; the PNG file names carry the load
\* index as one digit, so sorting by file name is sorting by load id
RECURSIVE SortedIds(_)
SortedIds(S) ==
    IF S = {} THEN <<>>
    ELSE LET lo == CHOOSE a \in S : \A b \in S : a <= b
         IN  <<lo>> \o SortedIds(S \ {lo})

\* the items with the parents as build_hierarchy_bbox left them
all_items_unforced(segs) ==
    [k \in DOMAIN segs |-> [id |-> segs[k].id, parent |-> segs[k].parent]]

\* lines 327-339: the items, the full-image item forced to parent -1
all_items(segs) ==
    [k \in DOMAIN segs |->
        [id |-> segs[k].id,
         parent |-> IF segs[k].id = 0 THEN -1 ELSE segs[k].parent]]

\* lines 342-344: the old ids of the items whose parent is p
parent_to_children(items, p) ==
    {items[k].id : k \in {j \in DOMAIN items : items[j].parent = p}}

\* lines 358-383: the breadth-first walk, children in file-name order; the
\* result is the sequence of old ids in the order they get new ids 0, 1, ...
RECURSIVE bfs(_, _, _)
bfs(queue, items, order) ==
    IF queue = <<>> THEN order
    ELSE LET old_id == Head(queue)
         IN  bfs(Tail(queue) \o SortedIds(parent_to_children(items, old_id)),
                 items, Append(order, old_id))

\* position of the old id in the walk
IndexOf(order, old_id) == CHOOSE n \in DOMAIN order : order[n] = old_id

\* lines 345-388: the scene written by export_hierarchy_json of
\* hierarchy_png.py; `filename` is the load id that the file name carries
export_hierarchy_json_png(segs) ==
    LET items == all_items(segs)
        root_items == SortedIds(parent_to_children(items, -1))
        order == bfs(root_items, items, <<>>)
    IN  [n \in DOMAIN order |->
            LET item == CHOOSE it \in {items[k] : k \in DOMAIN items} :
                            it.id = order[n]
            IN  [id |-> n - 1,
                 filename |-> item.id,
                 parent |-> IF \E q \in 1 .. (n - 1) : order[q] = item.parent
                            THEN IndexOf(order, item.parent) - 1
                            ELSE -1]]

\* build_hierarchy_bbox(segments, margin=m) as a whole, lines 249-288
build_hierarchy_bbox_margin(segs, m) ==
    [k \in DOMAIN segs |->
        IF segs[k].bbox = NoBox
        THEN [segs[k] EXCEPT !.parent = 0]
        ELSE LET best_parent == scan_bbox_margin(segs, segs[k], 1, None, Inf, m)
             IN  [segs[k] EXCEPT !.parent =
                     IF best_parent # None THEN best_parent ELSE 0]]

\* main, lines 445-447: the hierarchy is exported
ExportPng ==
    /\ pc = "built"
    /\ policy = "bbox"
    /\ exported' = export_hierarchy_json_png(segments)
    /\ pc' = "exported"
    /\ UNCHANGED <<elements, idx, out, id_counter, segments, policy, child,
                   files, done, zvars>>

NextPng == InitParents \/ SkipNoBbox \/ build_hierarchy_bbox \/ BuildDone \/ ExportPng

SpecPng == InitBbox /\ [][NextPng]_vars

\* the loop of build_hierarchy_bbox and the whole-function operator agree
BboxLoopIsOperator ==
    pc \in {"built", "exported"} =>
        segments = build_hierarchy_bbox_margin(segments, margin)

\* C14: in the exported forest the root has id 0 and parent -1, and the ids of
\* the regions do not depend on the parent pointers: the export of the same
\* regions with the parents of another containment margin gives every file
\* the same id
C14_IdsPolicyIndependent ==
    pc = "exported" =>
        /\ exported[1] = [id |-> 0, filename |-> 0, parent |-> -1]
        /\ \A m \in {0, margin} :
              LET other == export_hierarchy_json_png(
                               build_hierarchy_bbox_margin(segments, m))
              IN  \A a \in DOMAIN exported : \A b \in DOMAIN other :
                      exported[a].filename = other[b].filename
                          => exported[a].id = other[b].id

\* ------------------------------------------------------------ input order
\* the candidates that the inner loop of the active policy accepts for the
\* region at position k of the list segs
Candidates(segs, k) ==
    {j \in DOMAIN segs \ {k} :
        CASE policy = "strict" -> contains(segs[j].polygon, segs[k].polygon)
          [] policy = "intersects" ->
                /\ Area(segs[j].polygon) > Area(segs[k].polygon)
                /\ contains_or_intersects(segs[j].polygon, segs[k].polygon)
          [] policy = "bbox" ->
                /\ segs[j].bbox # NoBox
                /\ segs[j].bbox[3] * segs[j].bbox[4]
                      > segs[k].bbox[3] * segs[k].bbox[4]
                /\ within_margin(segs[k].bbox, segs[j].bbox, margin)}

\* the id that the inner loop of the active policy returns for position k
ParentAt(segs, k) ==
    CASE policy = "strict" -> scan_contains(segs, segs[k], 1, None, Inf)
      [] policy = "intersects" -> scan_intersects(segs, segs[k], 1, None, Inf)
      [] policy = "bbox" -> scan_bbox(segs, segs[k], 1, None, Inf)

\* the orders in which the regions at the positions S can be listed
Orderings(S) ==
    {f \in [1 .. Cardinality(S) -> S] :
        \A a, b \in 1 .. Cardinality(S) : a # b => f[a] # f[b]}

\* the list that the loader builds when the region files come in the order f
Reordered(f) ==
    IF policy = "bbox"
    THEN load_png_segments([k \in DOMAIN f |-> segments[f[k]].bbox])
    ELSE load_all_segments([k \in DOMAIN f |-> segments[f[k]].polygon])

\* the position in Reordered(f) of the region listed k-th by f
PosIn(f, k) == IF policy = "bbox" THEN k + 1 ELSE k

\* the position in `segments` of the segment with this id
PosOfId(id) == CHOOSE j \in DOMAIN segments : segments[j].id = id

\* no region has two candidates of equal area
NoEqualAreaCandidates ==
    \A k \in RegionIdx :
        \A i, j \in Candidates(segments, k) :
            i # j => PolicyArea(segments[i]) # PolicyArea(segments[j])

\* the parents computed from the list in the order f are the parents in
\* `segments`, region by region
SameParents(f) ==
    LET segs == Reordered(f)
    IN  \A k \in DOMAIN f :
            LET p == ParentAt(segs, PosIn(f, k))
            IN  IF p = None
                THEN segments[f[k]].parent = RootMark(policy)
                ELSE \E q \in DOMAIN f :
                        /\ segs[PosIn(f, q)].id = p
                        /\ segments[f[k]].parent = segments[f[q]].id

\* C15: when no region has two eligible candidates of equal area, every
\* permutation of the input region list yields the same parent for every
\* region
C15_OrderIndependent ==
    (pc = "built" /\ NoEqualAreaCandidates) =>
        \A f \in Orderings(RegionIdx) : SameParents(f)

C15_Witness ==
    /\ pc = "built"
    /\ NoEqualAreaCandidates
    /\ Cardinality(RegionIdx) = 3
    /\ \E k \in RegionIdx :
          /\ Cardinality(Candidates(segments, k)) = 2
          /\ segments[k].parent # RootMark(policy)
          /\ \E j \in Candidates(segments, k) :
                j < PosOfId(segments[k].parent)

\* the candidates of region k that share the minimum candidate area
Tied(k) == MinArea(Candidates(segments, k))

\* C16: when two or more eligible candidates of a region share the minimum
\* eligible area, the one that comes first in the segment list is the parent,
\* and another order of the same regions gives the region another parent
C16_FirstCandidateWins ==
    pc = "built" =>
        \A k \in RegionIdx :
            Cardinality(Tied(k)) >= 2 =>
                /\ \E j \in Tied(k) :
                      /\ \A i \in Tied(k) : j <= i
                      /\ segments[k].parent = segments[j].id
                /\ \E f \in Orderings(RegionIdx) : ~SameParents(f)

C16_Witness ==
    /\ pc = "built"
    /\ policy = "strict"
    /\ \E k \in RegionIdx :
          /\ \E i, j \in Tied(k) : segments[i].polygon # segments[j].polygon
          /\ PosOfId(segments[k].parent) \in Tied(k)
          /\ \E f \in Orderings(RegionIdx) :
                \E q \in DOMAIN f :
                    /\ f[q] = k
                    /\ ParentAt(Reordered(f), PosIn(f, q)) # None
                    /\ Reordered(f)[ParentAt(Reordered(f), PosIn(f, q)) + 1].polygon
                          # segments[PosOfId(segments[k].parent)].polygon

\* ------------------------------------------------------------ failing operation
\* lines 133-137 raise (a GEOS error of unary_union, covers or difference):
\* the except clause of lines 155-156 is that of the whole function body, so
\* the loop is left with the element idx and all later ones unwritten
RaiseError ==
    /\ pc = "resolve"
    /\ idx <= Len(elements)
    /\ upper_polygons(elements, idx) # <<>>
    /\ pc' = "error"
    /\ UNCHANGED <<elements, idx, out, id_counter, segments, policy, child, xvars, zvars>>

NextFail ==
    \/ SkipCovered
    \/ SkipSmall
    \/ EmitSegment
    \/ FinishScene
    \/ RaiseError

SpecFail == InitVis /\ [][NextFail]_vars

\* C17: when the computation fails for the region idx, the function returns
\* without an error and every other region that has a visible part of area at
\* least epsilon is written with that part, as without the failure
C17_FailureIsLocal ==
    pc = "error" =>
        \A i \in DOMAIN elements \ {idx} :
            (~FullyCovered(elements, i) /\ ~TooSmall(Residual(elements, i))) =>
                \E k \in DOMAIN out :
                    /\ out[k].src = i
                    /\ out[k].polygon = Residual(elements, i)

\* ------------------------------------------------------------ build_hierarchy.py main
\* a segment file: `ok` is FALSE when a numeric attribute of its rect, circle
\* or ellipse cannot be parsed by float(); a file without a shape, or with a
\* polygon whose points do not parse (caught at lines 117-121), has the empty
\* polygon
SegmentFiles ==
    {[polygon |-> r, ok |-> TRUE] : r \in DirRects \cup {{}}}
        \cup {[polygon |-> {}, ok |-> FALSE]}

\* the files of one scene folder, sorted by index
InitMain ==
    /\ pc = "load"
    /\ files \in UNION {[1 .. n -> SegmentFiles] : n \in 0 .. MaxRegions}
    /\ segments = <<>>
    /\ done = <<>>
    /\ exported = <<>>
    /\ delay = 0
    /\ total_waited = 0
    /\ log = <<>>
    /\ policy = "strict"
    /\ child = 0
    /\ elements = <<>>
    /\ idx = 0
    /\ out = <<>>
    /\ id_counter = 0

\* load_all_segments, lines 136-145: one file is parsed and, when its polygon
\* is non-empty and valid, appended with the next id
LoadFile ==
    /\ pc = "load"
    /\ files # <<>>
    /\ Head(files).ok
    /\ segments' = IF Head(files).polygon # {}
                   THEN Append(segments, [id |-> Len(segments),
                                          polygon |-> Head(files).polygon,
                                          bbox |-> NoBox,
                                          parent |-> None])
                   ELSE segments
    /\ done' = Append(done, Head(files))
    /\ files' = Tail(files)
    /\ UNCHANGED <<pc, elements, idx, out, id_counter, policy, child, exported, zvars>>

\* parse_polygon_from_svg, lines 96-114: float() raises ValueError outside any
\* try block; neither load_all_segments nor main catches it
LoadCrash ==
    /\ pc = "load"
    /\ files # <<>>
    /\ ~Head(files).ok
    /\ pc' = "crashed"
    /\ UNCHANGED <<elements, idx, out, id_counter, segments, policy, child, xvars, zvars>>

\* main, lines 424-426: `if not segments: ... continue`
SkipEmpty ==
    /\ pc = "load"
    /\ files = <<>>
    /\ segments = <<>>
    /\ pc' = "skipped"
    /\ UNCHANGED <<elements, idx, out, id_counter, segments, policy, child, xvars, zvars>>

\* main, line 428: build_hierarchy(segments) is entered
StartBuild ==
    /\ pc = "load"
    /\ files = <<>>
    /\ segments # <<>>
    /\ pc' = "init_parents"
    /\ UNCHANGED <<elements, idx, out, id_counter, segments, policy, child, xvars, zvars>>

\* lines 335-338: ids shifted by one, parents shifted unless they are 0
shift(segs) ==
    [k \in DOMAIN segs |->
        [id |-> segs[k].id + 1,
         parent |-> IF segs[k].parent # 0 THEN segs[k].parent + 1 ELSE 0]]

\* lines 350-366: the parent after the renumbering; the file names are those
\* of main.py (`_element_N`, no "Layer"), so sort_key keeps the load order and
\* the new id of a segment is its position
remap_parent(shifted, p) ==
    IF \E j \in DOMAIN shifted : shifted[j].id = p
    THEN CHOOSE j \in DOMAIN shifted : shifted[j].id = p
    ELSE IF p = 0 THEN 0 ELSE -1

\* lines 340-386: the scene written by export_hierarchy_json of
\* build_hierarchy.py; `filename` is the load position of the segment file
export_hierarchy_json(segs) ==
    LET shifted == shift(segs)
    IN  <<[id |-> 0, filename |-> 0, parent |-> -1]>> \o
        [k \in DOMAIN segs |->
            [id |-> k,
             filename |-> k,
             parent |-> remap_parent(shifted, shifted[k].parent)]]

\* lines 335-366: the segment records themselves after the export, which
\* assigns seg["id"] and seg["parent"] in place
renumbered(segs) ==
    LET shifted == shift(segs)
    IN  [k \in DOMAIN segs |->
            [segs[k] EXCEPT !.id = k,
                            !.parent = remap_parent(shifted, shifted[k].parent)]]

\* main, lines 430-432
ExportSvg ==
    /\ pc = "built"
    /\ policy = "strict"
    /\ exported' = export_hierarchy_json(segments)
    /\ segments' = renumbered(segments)
    /\ pc' = "exported"
    /\ UNCHANGED <<elements, idx, out, id_counter, policy, child, files, done, zvars>>

NextMain ==
    \/ LoadFile
    \/ LoadCrash
    \/ SkipEmpty
    \/ StartBuild
    \/ InitParents
    \/ build_hierarchy
    \/ BuildDone
    \/ ExportSvg

SpecMain == InitMain /\ [][NextMain]_vars

\* the polygons of the files that parse and hold a non-empty polygon
RECURSIVE WellFormed(_)
WellFormed(fs) ==
    IF fs = <<>> THEN <<>>
    ELSE IF Head(fs).ok /\ Head(fs).polygon # {}
         THEN <<Head(fs).polygon>> \o WellFormed(Tail(fs))
         ELSE WellFormed(Tail(fs))

\* C18: a file whose numeric geometry parameters cannot be parsed yields no
\* region and no exception escapes: the scene is never left by an exception
\* and the loaded regions are those of the other files, as if the file were
\* absent
C18_MalformedSkipped ==
    /\ pc # "crashed"
    /\ pc \in {"init_parents", "skipped"} =>
          [k \in DOMAIN segments |-> segments[k].polygon] = WellFormed(done)

\* the exported forest of a scene without regions is the root alone
RootOnly == <<[id |-> 0, filename |-> 0, parent |-> -1]>>

\* C19: for a scene with no surviving region, hierarchy construction and
\* export succeed and write a forest that is exactly the root node (id 0,
\* parent -1); the scene is not skipped
C19_EmptySceneIsRootOnly ==
    (files = <<>> /\ RegionIdx = {} /\ pc \notin {"load", "crashed"}) =>
        /\ pc # "skipped"
        /\ pc = "exported" => exported = RootOnly

\* the PNG path writes the root alone for a folder without PNG segments
PngEmptySceneIsRootOnly ==
    (pc = "exported" /\ RegionIdx = {}) => exported = RootOnly

PngEmptySceneReached == pc = "exported" /\ RegionIdx = {}

\* ------------------------------------------------------------ extraction
\* what a fill declaration can say: nothing, a flat colour, none, transparent,
\* a gradient reference url(#..), and the same reference after a blank
\* ("fill: url(#..)")
FillValues == {"absent", "flat", "none", "transparent", "url"}

StyleFillValues == FillValues \cup {"url_spaced"}

\* an opacity declaration: none, one below 0.5, one of at least 0.5
OpacityValues == {"absent", "low", "high"}

\* a shape element of the input file: the fill of its fill attribute, of its
\* style attribute and of the rule of its class in the style table; the
\* opacity of its style attribute and of its opacity attribute; whether its
\* class name holds "background" or "shadow"; and its geometry attributes
\* (a polygon, an empty polygon, or numbers that do not parse) with the
\* rectangle that x, y, width and height describe when they parse
ShapeElements ==
    [fill_attr : FillValues,
     style_fill : StyleFillValues,
     class_fill : FillValues,
     style_opacity : OpacityValues,
     attr_opacity : OpacityValues,
     class_bg : BOOLEAN,
     geometry : {"ok", "empty", "malformed"},
     rect : {Rect(1, 1, 1, 1)}]

\* passes_filters, lines 90-106: only the style attribute and the class rule
\* are read; 'fill:url(' is searched in the style attribute as written,
\* 'fill:none' after the blanks are removed
passes_filters(e) ==
    /\ ~(e.style_fill = "url" \/ e.style_fill = "none")
    /\ ~(e.class_fill = "url")
    /\ ~(e.class_fill = "none")
    /\ ~e.class_bg
    /\ ~(e.style_opacity = "low")

\* parse_element_to_shapely, lines 40-81: None when an exception is caught
parse_element_to_shapely(e) ==
    CASE e.geometry = "ok" -> [none |-> FALSE, polygon |-> e.rect]
      [] e.geometry = "empty" -> [none |-> FALSE, polygon |-> {}]
      [] e.geometry = "malformed" -> [none |-> TRUE, polygon |-> {}]

\* lines 117-118: the shape elements of the file, in document order
InitExtract ==
    /\ pc = "extract"
    /\ files \in [1 .. 1 -> ShapeElements]
    /\ elements = <<>>
    /\ done = <<>>
    /\ exported = <<>>
    /\ delay = 0
    /\ total_waited = 0
    /\ log = <<>>
    /\ idx = 0
    /\ out = <<>>
    /\ id_counter = 0
    /\ segments = <<>>
    /\ policy = "none"
    /\ child = 0

\* lines 122-123: the element does not pass the filters
FilterOut ==
    /\ pc = "extract"
    /\ files # <<>>
    /\ ~passes_filters(Head(files))
    /\ done' = Append(done, [element |-> Head(files), kept |-> FALSE])
    /\ files' = Tail(files)
    /\ UNCHANGED <<pc, elements, idx, out, id_counter, segments, policy, child,
                   exported, zvars>>

\* lines 124-125: no polygon, or an empty one
ParseSkip ==
    /\ pc = "extract"
    /\ files # <<>>
    /\ passes_filters(Head(files))
    /\ LET poly == parse_element_to_shapely(Head(files))
       IN  poly.none \/ is_empty(poly.polygon)
    /\ done' = Append(done, [element |-> Head(files), kept |-> FALSE])
    /\ files' = Tail(files)
    /\ UNCHANGED <<pc, elements, idx, out, id_counter, segments, policy, child,
                   exported, zvars>>

\* line 126: elements.append(...)
KeepElement ==
    /\ pc = "extract"
    /\ files # <<>>
    /\ passes_filters(Head(files))
    /\ LET poly == parse_element_to_shapely(Head(files))
       IN  /\ ~poly.none
           /\ ~is_empty(poly.polygon)
           /\ elements' = Append(elements, poly.polygon)
    /\ done' = Append(done, [element |-> Head(files), kept |-> TRUE])
    /\ files' = Tail(files)
    /\ UNCHANGED <<pc, idx, out, id_counter, segments, policy, child, exported, zvars>>

\* the loop of line 118 is exhausted
ExtractDone ==
    /\ pc = "extract"
    /\ files = <<>>
    /\ pc' = "extracted"
    /\ UNCHANGED <<elements, idx, out, id_counter, segments, policy, child, xvars, zvars>>

NextExtract == FilterOut \/ ParseSkip \/ KeepElement \/ ExtractDone

SpecExtract == InitExtract /\ [][NextExtract]_vars

\* the fills that the element declares
DeclaredFills(e) ==
    {v \in {e.fill_attr,
            IF e.style_fill = "url_spaced" THEN "url" ELSE e.style_fill,
            e.class_fill} : v # "absent"}

\* every declaration resolves the fill to none, transparent or a gradient
FillInvisible(e) ==
    /\ DeclaredFills(e) # {}
    /\ DeclaredFills(e) \subseteq {"none", "transparent", "url"}

\* no declaration does
FillFlat(e) == DeclaredFills(e) \cap {"none", "transparent", "url"} = {}

LowOpacity(e) == e.style_opacity = "low" \/ e.attr_opacity = "low"

\* C20: an element is excluded from the region list when its fill resolves to
\* none, transparent or a gradient reference, or its declared opacity is below
\* 0.5, or its class name matches background/shadow, or its polygon is empty;
\* an element for which none of these holds is kept.  Elements whose fill
\* declarations disagree are left out of both halves.
C20_ExcludedIffInvisible ==
    \A n \in DOMAIN done :
        LET e == done[n].element
        IN  /\ (FillInvisible(e) \/ LowOpacity(e) \/ e.class_bg
                    \/ e.geometry = "empty") => ~done[n].kept
            /\ (FillFlat(e) /\ ~LowOpacity(e) /\ ~e.class_bg
                    /\ e.geometry = "ok") => done[n].kept

\* ------------------------------------------------------------ stages and their input
\* build_hierarchy as a whole, lines 149-174
build_hierarchy_all(segs) ==
    [k \in DOMAIN segs |->
        LET best_parent == scan_contains(segs, segs[k], 1, None, Inf)
        IN  [segs[k] EXCEPT !.parent =
                IF best_parent # None THEN best_parent ELSE -1]]

\* the records that load_all_segments returned for the files read
Loaded == load_all_segments(WellFormed(done))

\* the loop of build_hierarchy and the whole-function operator agree
HierLoopIsOperator ==
    pc = "built" => segments = build_hierarchy_all(Loaded)

\* the resolver never assigns to the list of elements
ElementsUnchanged == [][elements' = elements]_vars

\* C21: no stage mutates its input: after hierarchy construction and after
\* export every region record that the loader returned still has its id and
\* no field of it was added or changed
C21_InputNotMutated ==
    pc \in {"built", "exported"} => segments = Loaded

\* the exported entry of the segment loaded at position k
EntryOf(k) == CHOOSE e \in {exported[n] : n \in DOMAIN exported} : e.filename = k

\* C23: the renumbering of the export keeps the forest of build_hierarchy: a
\* region whose parent is the region p is exported with the exported id of p
\* as parent, a region left at the root is exported with parent 0, and no
\* exported region has parent -1
C23_ExportKeepsForest ==
    pc = "exported" =>
        LET built == build_hierarchy_all(Loaded)
        IN  \A c \in DOMAIN built :
                /\ EntryOf(c).parent # -1
                /\ IF built[c].parent = -1
                   THEN EntryOf(c).parent = 0
                   ELSE \E p \in DOMAIN built :
                           /\ built[p].id = built[c].parent
                           /\ EntryOf(c).parent = EntryOf(p).id

\* ------------------------------------------------------------ run_full_pipeline
\* lines 289-294: the steps in the order of the list
steps ==
    <<"step1_svg_segmentation", "step2_highlight_segments",
      "step3_send_to_gemini", "step4_build_hierarchy">>

\* what the processing of one SVG file does inside a step of lines 107-141,
\* 164-178, 201-224: it succeeds, it is skipped by `continue`, or it raises
\* and the except clause of the loop body logs the error
FileOutcomes == {"ok", "skipped", "failed"}

\* the return value of a step: step 1 returns True unless the input
\* directory is missing or process_directory raises (lines 66-78; `raised`
\* stands for both); steps 2 to 4 return success_count > 0, which is False
\* for a folder without SVG files (lines 97-99 and 143-144)
step_func(name, outcomes, raised) ==
    IF name = "step1_svg_segmentation"
    THEN ~raised
    ELSE \E i \in DOMAIN outcomes : outcomes[i] = "ok"

\* a loop that goes on after a failed step
stops_never(ok) == FALSE

\* line 297: `if not step_func(selected_folder)`
stops(ok) == ~ok

\* the SVG files of the selected folder, named by their position
InitPipeline ==
    /\ pc = "prerequisites"
    /\ files \in {[k \in 1 .. n |-> k] : n \in 0 .. MaxScenes}
    /\ idx = 0
    /\ log = <<>>
    /\ done = <<>>
    /\ exported = <<>>
    /\ delay = 0
    /\ total_waited = 0
    /\ elements = <<>>
    /\ out = <<>>
    /\ id_counter = 0
    /\ segments = <<>>
    /\ policy = "none"
    /\ child = 0

\* lines 276-279: check_prerequisites
CheckPrerequisites ==
    /\ pc = "prerequisites"
    /\ \E ok \in BOOLEAN : pc' = IF ok THEN "select" ELSE "returned"
    /\ UNCHANGED <<elements, idx, out, id_counter, segments, policy, child,
                   xvars, zvars>>

\* lines 281-284: select_input_folder
SelectFolder ==
    /\ pc = "select"
    /\ \E selected \in BOOLEAN :
          /\ pc' = IF selected THEN "steps" ELSE "returned"
          /\ idx' = IF selected THEN 1 ELSE idx
    /\ UNCHANGED <<elements, out, id_counter, segments, policy, child,
                   xvars, zvars>>

\* lines 296-299: one round of `for step_name, step_func in steps`
RunStep ==
    /\ pc = "steps"
    /\ idx <= Len(steps)
    /\ \E outcomes \in [DOMAIN files -> FileOutcomes] : \E raised \in BOOLEAN :
          LET name == steps[idx]
              ok == step_func(name, outcomes, raised)
          IN  /\ name = "step1_svg_segmentation" =>
                    outcomes = [k \in DOMAIN files |-> "ok"]
              /\ name # "step1_svg_segmentation" => ~raised
              /\ log' = Append(log, [step |-> name, outcomes |-> outcomes,
                                    ok |-> ok])
              /\ pc' = IF stops(ok) THEN "returned" ELSE pc
              /\ idx' = IF stops(ok) THEN idx ELSE idx + 1
    /\ UNCHANGED <<elements, out, id_counter, segments, policy, child,
                   xvars, delay, total_waited>>

\* lines 301-306: the loop is exhausted and the success banner is printed
PrintBanner ==
    /\ pc = "steps"
    /\ idx > Len(steps)
    /\ log' = Append(log, [step |-> "PIPELINE COMPLETED SUCCESSFULLY",
                          outcomes |-> <<>>, ok |-> TRUE])
    /\ pc' = "returned"
    /\ UNCHANGED <<elements, idx, out, id_counter, segments, policy, child,
                   xvars, delay, total_waited>>

NextPipeline == CheckPrerequisites \/ SelectFolder \/ RunStep \/ PrintBanner

SpecPipeline == InitPipeline /\ [][NextPipeline]_vars

\* the steps in the order of the module docstring, then the banner
PipelineOrder == steps \o <<"PIPELINE COMPLETED SUCCESSFULLY">>

\* C24: the steps run in the order segmentation, highlighting, description
\* request, hierarchy building; a step starts only after every earlier step
\* returned success; after the first step that reports failure no later step
\* runs and the success banner is not printed
C24_StepsInOrderStopAtFailure ==
    /\ Len(log) <= Len(PipelineOrder)
    /\ \A n \in DOMAIN log :
          /\ log[n].step = PipelineOrder[n]
          /\ \A m \in 1 .. (n - 1) : log[m].ok
    /\ (pc = "returned" /\ \E n \in DOMAIN log : ~log[n].ok) =>
          ~log[Len(log)].ok

C24_Witness ==
    /\ pc = "returned"
    /\ Len(log) = 3
    /\ log[1].ok
    /\ log[2].ok
    /\ ~log[3].ok
    /\ \E i \in DOMAIN files : log[3].outcomes[i] = "failed"

\* ------------------------------------------------------------ residuals
\* the residual of element i before the test of line 138: the polygon of its
\* segment when one was written, nothing when line 134 skipped it, and the
\* difference of line 137 when line 138 dropped it
ResidualOf(i) ==
    IF i \in Srcs
    THEN out[CHOOSE k \in DOMAIN out : out[k].src = i].polygon
    ELSE IF FullyCovered(elements, i) THEN {}
    ELSE Residual(elements, i)

\* the cells painted by some element of the scene
Painted == UNION {elements[i] : i \in DOMAIN elements}

\* C25: before the epsilon drop the residuals partition the painted area:
\* every painted point lies in the residual of exactly one region, the
\* latest-painted region whose geometry contains it, so the union of the
\* residuals is the union of the input geometries
C25_ResidualsPartition ==
    pc = "resolved" =>
        /\ \A c \in Painted :
              \A i \in DOMAIN elements :
                  c \in ResidualOf(i) <=>
                      /\ c \in elements[i]
                      /\ \A j \in (i + 1) .. Len(elements) : c \notin elements[j]
        /\ UNION {ResidualOf(i) : i \in DOMAIN elements} = Painted

C25_Witness ==
    /\ pc = "resolved"
    /\ Len(elements) = 3
    /\ \E c \in Painted : \A i \in DOMAIN elements : c \in elements[i]
    /\ \E i \in DOMAIN elements :
          i \notin Srcs /\ ~FullyCovered(elements, i) /\ ResidualOf(i) # {}
    /\ \E i \in DOMAIN elements : FullyCovered(elements, i)

\* ------------------------------------------------------------ extraction, then resolution
\* the rectangles of the sliver column and the first two pixel columns
SceneRects == {r \in Rects : r \subseteq (0 .. 2) \X {1}}

\* shape elements that pass the filters, that are rejected for the fill:none
\* of their style attribute, or whose numbers do not parse
SceneElements ==
    {e \in [fill_attr : {"absent"},
            style_fill : {"absent", "none"},
            class_fill : {"absent"},
            style_opacity : {"absent"},
            attr_opacity : {"absent"},
            class_bg : {FALSE},
            geometry : {"ok", "malformed"},
            rect : SceneRects] :
        ~(e.style_fill = "none" /\ e.geometry = "malformed")}

InitScene ==
    /\ pc = "extract"
    /\ files \in UNION {[1 .. n -> SceneElements] : n \in 0 .. MaxRegions}
    /\ elements = <<>>
    /\ done = <<>>
    /\ exported = <<>>
    /\ delay = 0
    /\ total_waited = 0
    /\ log = <<>>
    /\ idx = 0
    /\ out = <<>>
    /\ id_counter = 0
    /\ segments = <<>>
    /\ policy = "none"
    /\ child = 0

\* line 128: the loop over the extracted elements starts
StartResolve ==
    /\ pc = "extract"
    /\ files = <<>>
    /\ idx' = 1
    /\ pc' = "resolve"
    /\ UNCHANGED <<elements, out, id_counter, segments, policy, child, xvars, zvars>>

NextScene ==
    \/ FilterOut
    \/ ParseSkip
    \/ KeepElement
    \/ StartResolve
    \/ SkipCovered
    \/ SkipSmall
    \/ EmitSegment
    \/ FinishScene

SpecScene == InitScene /\ [][NextScene]_vars

\* the positions in the file of the elements that passed the filters and
\* produced a non-empty polygon
Passed ==
    {n \in DOMAIN done :
        /\ passes_filters(done[n].element)
        /\ done[n].element.geometry = "ok"
        /\ done[n].element.rect # {}}

\* the position in the file of the i-th element of `elements`
RawIndex(i) ==
    CHOOSE n \in Passed : Cardinality({m \in Passed : m <= n}) = i

\* the original geometry of every later element of the file that passed
Occluders(n) == UNION {done[m].element.rect : m \in {q \in Passed : q > n}}

\* C26: the occluders of a region are the original geometries of all later
\* elements that passed the filters and produced a non-empty polygon, whether
\* or not these are dropped themselves; an element that was rejected or gave
\* no polygon occludes nothing
C26_OccludersAreOriginalLater ==
    pc = "resolved" =>
        /\ Len(elements) = Cardinality(Passed)
        /\ \A i \in DOMAIN elements :
              LET n == RawIndex(i)
                  visible == done[n].element.rect \ Occluders(n)
              IN  IF i \in Srcs
                  THEN ResidualOf(i) = visible
                  ELSE visible = {} \/ Area(visible) < EPS

C26_Witness ==
    /\ pc = "resolved"
    /\ \E i \in Srcs :
          /\ \E j \in DOMAIN elements \ Srcs :
                /\ j > i
                /\ (elements[i] \cap elements[j])
                      \ UNION {elements[l] : l \in {q \in Srcs : q > i}} # {}
          /\ \E m \in DOMAIN done \ Passed :
                /\ m > RawIndex(i)
                /\ done[m].element.rect \cap ResidualOf(i) # {}

\* ------------------------------------------------------------ nested rectangles
\* largest inset of a rectangle of the chain in the one around it
MaxInset == 5

\* a square of side s, a square around it at distance b on every side and a
\* square around that at distance a on every side, painted outermost first;
\* with cells of 5 by 5 pixels, Chain(5, 4, 2) is the outer 100 by 100, the
\* centred 50 by 50 and the centred 10 by 10
Chain(a, b, s) ==
    <<Rect(1, 1, s + 2 * a + 2 * b, s + 2 * a + 2 * b),
      Rect(1 + a, 1 + a, s + 2 * b, s + 2 * b),
      Rect(1 + a + b, 1 + a + b, s, s)>>

Chains == {Chain(a, b, s) : a \in 1 .. MaxInset, b \in 1 .. MaxInset, s \in 1 .. 2}

\* the loop of lines 128-151 as a whole: the segments written from element i
\* on when the id counter holds `counter`
RECURSIVE resolve_from(_, _, _)
resolve_from(els, i, counter) ==
    IF i > Len(els) THEN <<>>
    ELSE IF FullyCovered(els, i) \/ TooSmall(Residual(els, i))
    THEN resolve_from(els, i + 1, counter)
    ELSE <<[src |-> i,
            polygon |-> Residual(els, i),
            id |-> generate_unique_id(counter),
            d |-> polygon_to_pathdata(Residual(els, i))]>>
         \o resolve_from(els, i + 1, generate_unique_id(counter))

\* the loop of process_svg_file and the whole-function operator agree
ResolveLoopIsOperator ==
    pc = "resolved" => out = resolve_from(elements, 1, 0)

\* cv2.boundingRect of the rendered segment: x, y, width, height
boundingRect(p) ==
    LET xs == {c[1] : c \in p}
        ys == {c[2] : c \in p}
        x0 == CHOOSE x \in xs : \A v \in xs : x <= v
        x1 == CHOOSE x \in xs : \A v \in xs : x >= v
        y0 == CHOOSE y \in ys : \A v \in ys : y <= v
        y1 == CHOOSE y \in ys : \A v \in ys : y >= v
    IN  <<x0, y0, x1 - x0 + 1, y1 - y0 + 1>>

InitChain ==
    /\ pc = "segment"
    /\ elements \in Chains
    /\ policy \in {"strict", "bbox"}
    /\ idx = 0
    /\ out = <<>>
    /\ id_counter = 0
    /\ segments = <<>>
    /\ child = 0
    /\ files = <<>>
    /\ done = <<>>
    /\ exported = <<>>
    /\ delay = 0
    /\ total_waited = 0
    /\ log = <<>>

\* main.py, process_svg_file: the scene is resolved and its segment files
\* are written
Segment ==
    /\ pc = "segment"
    /\ out' = resolve_from(elements, 1, id_counter)
    /\ id_counter' = id_counter + Len(resolve_from(elements, 1, id_counter))
    /\ idx' = Len(elements) + 1
    /\ pc' = "segmented"
    /\ UNCHANGED <<elements, segments, policy, child, xvars, zvars>>

\* build_hierarchy.py, load_all_segments: the polygon of a segment is the
\* area that the path of its file encloses (lines 90-94)
LoadSvgSegments ==
    /\ pc = "segmented"
    /\ policy = "strict"
    /\ out # <<>>
    /\ segments' = load_all_segments([k \in DOMAIN out |-> out[k].d])
    /\ pc' = "init_parents"
    /\ UNCHANGED <<elements, idx, out, id_counter, policy, child, xvars, zvars>>

\* hierarchy_png.py, load_png_segments: the box of a segment is the bounding
\* rectangle of its rendered path (line 227)
LoadPngSegments ==
    /\ pc = "segmented"
    /\ policy = "bbox"
    /\ segments' = load_png_segments([k \in DOMAIN out |-> boundingRect(out[k].d)])
    /\ pc' = "init_parents"
    /\ UNCHANGED <<elements, idx, out, id_counter, policy, child, xvars, zvars>>

NextChain ==
    \/ Segment
    \/ LoadSvgSegments
    \/ LoadPngSegments
    \/ InitParents
    \/ build_hierarchy
    \/ SkipNoBbox
    \/ build_hierarchy_bbox
    \/ BuildDone

SpecChain == InitChain /\ [][NextChain]_vars

\* the position in `segments` of the k-th written segment
SegPos(k) == IF policy = "bbox" THEN k + 1 ELSE k

\* C22: for a chain of strictly nested rectangles painted outermost first,
\* visibility resolution followed by hierarchy construction gives
\* parent(inner) = middle, parent(middle) = outer, parent(outer) = root
C22_NestedChain ==
    pc = "built" =>
        /\ Len(out) = 3
        /\ segments[SegPos(3)].parent = segments[SegPos(2)].id
        /\ segments[SegPos(2)].parent = segments[SegPos(1)].id
        /\ segments[SegPos(1)].parent = RootMark(policy)

C22_Witness ==
    /\ pc = "built"
    /\ policy = "strict"
    /\ elements = Chain(5, 4, 2)
    /\ segments[3].parent = 1
    /\ segments[2].parent = 0
    /\ segments[1].parent = -1
    /\ out[1].polygon # out[1].d

\* C27: the path written for a surviving region denotes exactly its visible
\* geometry, holes included: the area that the path encloses is the area of
\* the residual and the written segments of one scene do not overlap
C27_PathIsResidual ==
    /\ \A k \in DOMAIN out : Area(out[k].d) = Area(out[k].polygon)
    /\ \A j, k \in DOMAIN out : j # k => out[j].d \cap out[k].d = {}

\* ------------------------------------------------------------ exported PNG scene
\* C28: in the scene exported after build_hierarchy_bbox the ids are exactly
\* 0..n without gaps or duplicates, the entry with id 0 is the root with
\* parent -1, the parent of every other entry is the id of an entry earlier
\* in the list, and every input segment appears exactly once
C28_ExportedSceneWellFormed ==
    pc = "exported" =>
        /\ Len(exported) = Len(segments)
        /\ \A n \in DOMAIN exported : exported[n].id = n - 1
        /\ exported[1].filename = 0
        /\ exported[1].parent = -1
        /\ \A n \in DOMAIN exported \ {1} :
              /\ exported[n].parent >= 0
              /\ exported[n].parent < exported[n].id
        /\ \A k \in DOMAIN segments :
              Cardinality({n \in DOMAIN exported :
                              exported[n].filename = segments[k].id}) = 1

C28_Witness ==
    /\ pc = "exported"
    /\ Len(exported) = 4
    /\ \E n \in DOMAIN exported : exported[n].parent > 0
    /\ \E n \in DOMAIN exported : exported[n].filename # exported[n].id

\* ------------------------------------------------------------ send_images_with_prompt
\* line 16: the default of the parameter, the only value a caller passes
max_total_wait_minutes == 20

\* line 72: random.uniform(0, 3), here one of its two ends
MaxJitter == 3

Jitters == {0, MaxJitter}

\* what a request can do: return with status 200, return with a retryable or
\* another error status, or raise a transport error
Statuses == {"200", "429", "503", "http_error", "transport_error"}

Min(a, b) == IF a <= b THEN a ELSE b

\* a back-off that forgets the delay
next_delay_zero(d, jitter) == 0

\* lines 71-72: delay = min(delay * 2, 300); delay += jitter
next_delay(d, jitter) == Min(d * 2, 300) + jitter

\* lines 50-51
InitSend ==
    /\ pc = "loop"
    /\ delay = 6
    /\ total_waited = 0
    /\ log = <<>>
    /\ out = <<>>
    /\ elements = <<>>
    /\ idx = 0
    /\ id_counter = 0
    /\ segments = <<>>
    /\ policy = "none"
    /\ child = 0
    /\ files = <<>>
    /\ done = <<>>
    /\ exported = <<>>

\* lines 54-65: the request returns with status 200; sleep(4) and the JSON
\* of the response is returned
RequestSucceeds ==
    /\ pc = "loop"
    /\ total_waited < max_total_wait_minutes * 60
    /\ log' = <<[status |-> "200", slept |-> 4]>>
    /\ out' = <<"json">>
    /\ pc' = "returned"
    /\ UNCHANGED <<elements, idx, id_counter, segments, policy, child, xvars,
                   delay, total_waited>>

\* lines 60-63 raise HTTPError, or line 56 raises a transport error; lines
\* 67-72: sleep(delay), then the next round of the loop
RequestFails ==
    /\ pc = "loop"
    /\ total_waited < max_total_wait_minutes * 60
    /\ \E status \in Statuses \ {"200"} : \E jitter \in Jitters :
          /\ log' = <<[status |-> status, slept |-> delay]>>
          /\ total_waited' = total_waited + delay
          /\ delay' = next_delay(delay, jitter)
    /\ UNCHANGED <<pc, elements, idx, out, id_counter, segments, policy, child,
                   xvars>>

\* lines 53 and 74-75: the loop condition fails and None is returned
GiveUp ==
    /\ pc = "loop"
    /\ ~(total_waited < max_total_wait_minutes * 60)
    /\ out' = <<"None">>
    /\ pc' = "returned"
    /\ UNCHANGED <<elements, idx, id_counter, segments, policy, child, xvars,
                   zvars>>

NextSend == RequestSucceeds \/ RequestFails \/ GiveUp

\* a request returns or raises, so the call always takes its next step
SpecSend == InitSend /\ [][NextSend]_vars /\ WF_vars(NextSend)

\* the call has returned the JSON of a successful attempt, or None after the
\* accumulated wait reached the limit; a failed attempt is followed by a
\* sleep of at least 6 seconds
SendSafety ==
    /\ pc = "loop" => (out = <<>> /\ delay >= 6)
    /\ pc = "returned" =>
          \/ out = <<"json">> /\ log[1].status = "200"
          \/ /\ out = <<"None">>
             /\ total_waited >= max_total_wait_minutes * 60
             /\ log[1].status # "200"
    /\ (log # <<>> /\ log[1].status # "200") => log[1].slept >= 6

MaxElement == 2

\* line 228: the parameter chunk_size, with a value that makes a group of
\* three PNGs two chunks
chunk_size == 2

\* line 94: the lines of a reply, as many as describe every image of a chunk
MaxLines == 2 * chunk_size

\* the name of a PNG: `<stem>_element_<N>_highlighted.png`, a PNG without a
\* number, and the full scene `<stem>-full.png`
PngNames ==
    [stem : {"scene"}, element : (1 .. MaxElement) \cup {None},
     suffix : {"_highlighted.png"}]
    \cup [stem : {"scene"}, element : {None}, suffix : {"-full.png"}]

\* lines 251, 265: f.name.endswith("-full.png")
is_full(name) == name.suffix = "-full.png"

\* lines 138-145: the number after `_element_`, float('inf') without one
extract_element_number(filename) ==
    IF filename.element # None THEN filename.element ELSE Inf

\* lines 264-267: sorted() is stable, the first of the least keys comes first
RECURSIVE sorted_by_element_number(_)
sorted_by_element_number(lst) ==
    IF lst = <<>> THEN <<>>
    ELSE LET least == CHOOSE k \in 1 .. Len(lst) :
                 /\ \A j \in 1 .. Len(lst) :
                       extract_element_number(lst[k])
                           <= extract_element_number(lst[j])
                 /\ \A j \in 1 .. (k - 1) :
                       extract_element_number(lst[j])
                           # extract_element_number(lst[k])
             rest == [j \in 1 .. (Len(lst) - 1) |->
                         IF j < least THEN lst[j] ELSE lst[j + 1]]
         IN  <<lst[least]>> \o sorted_by_element_number(rest)

\* a chunking that stops after the first chunk
chunk_list_first(lst, size) ==
    IF lst = <<>> THEN <<>> ELSE <<SubSeq(lst, 1, Min(size, Len(lst)))>>

\* lines 147-153: lst[i:i + chunk_size] for i in range(0, len(lst), chunk_size)
chunk_list(lst, size) ==
    [c \in 1 .. ((Len(lst) + size - 1) \div size) |->
        SubSeq(lst, (c - 1) * size + 1, Min(c * size, Len(lst)))]

no_description == "No description available."

\* current_filename = None: no file name is waiting for its description
no_filename == [stem |-> "", element |-> None, suffix |-> ""]

\* the lines of a reply: `**name**`, `* text`, or anything else
ReplyLines(names) ==
    [kind : {"filename"}, filename : names, description : {""}]
    \cup [kind : {"bullet"}, filename : {no_filename}, description : {"a shape"}]
    \cup [kind : {"other"}, filename : {no_filename}, description : {""}]

BoundedSeq(S, n) == UNION {[1 .. k -> S] : k \in 0 .. n}

\* what send_images_with_prompt hands back for a chunk: None after the
\* give-up, a JSON without a candidate text, or a JSON with a text
Responses(image_chunk) ==
    LET names == {image_chunk[k] : k \in 1 .. Len(image_chunk)}
                     \cup {[stem |-> "other", element |-> None,
                            suffix |-> "_highlighted.png"]}
    IN  {[kind |-> "None", lines |-> <<>>], [kind |-> "no_text", lines |-> <<>>]}
        \cup [kind : {"text"}, lines : BoundedSeq(ReplyLines(names), MaxLines)]

\* lines 98-111: a bullet after a file name gives that name its description
RECURSIVE description_map(_, _, _)
description_map(lines, map, current_filename) ==
    IF lines = <<>> THEN map
    ELSE LET line == Head(lines)
         IN  IF line.kind = "filename"
             THEN description_map(Tail(lines), map, line.filename)
             ELSE IF line.kind = "bullet" /\ current_filename # no_filename
             THEN description_map(Tail(lines),
                      (current_filename :> line.description) @@ map,
                      no_filename)
             ELSE description_map(Tail(lines), map, current_filename)

\* lines 86-93: the text of the reply, "" when the JSON has none
text_block(gemini_response) ==
    IF gemini_response.kind = "text" THEN gemini_response.lines ELSE <<>>

\* lines 78-136
parse_and_format_response(image_paths, gemini_response) ==
    LET map == description_map(text_block(gemini_response), <<>>, no_filename)
    IN  [k \in 1 .. Len(image_paths) |->
            [id |-> image_paths[k],
             description |->
                 IF image_paths[k] \in DOMAIN map /\ map[image_paths[k]] # ""
                 THEN map[image_paths[k]] ELSE no_description]]

\* lines 276-279
fallback_chunk(image_chunk) ==
    [k \in 1 .. Len(image_chunk) |->
        [id |-> image_chunk[k], description |-> no_description]]

\* the PNGs of one group in the order rglob lists them
PngLists ==
    {l \in BoundedSeq(PngNames, Cardinality(PngNames)) :
        /\ l # <<>>
        /\ \A j, k \in 1 .. Len(l) : j # k => l[j] # l[k]}

\* lines 238-241: the PNGs of one group
InitGroup ==
    /\ pc = "group"
    /\ files \in PngLists
    /\ segments = <<>>
    /\ idx = 0
    /\ out = <<>>
    /\ exported = <<>>
    /\ done = <<>>
    /\ log = <<>>
    /\ elements = <<>>
    /\ id_counter = 0
    /\ policy = "none"
    /\ child = 0
    /\ delay = 0
    /\ total_waited = 0

\* lines 251-267: the full scene is described first, when there is one; the
\* other PNGs are sorted by element number
SortPngs ==
    /\ pc = "group"
    /\ done' = IF \E k \in 1 .. Len(files) : is_full(files[k])
               THEN <<"scene_metadata.json">> ELSE <<>>
    /\ segments' = sorted_by_element_number(
                       SelectSeq(files, LAMBDA f : ~is_full(f)))
    /\ pc' = "chunks"
    /\ UNCHANGED <<elements, idx, out, id_counter, policy, child, files,
                   exported, zvars>>

\* lines 271-280: one chunk is sent and its entries are appended
SendChunk ==
    /\ pc = "chunks"
    /\ idx < Len(chunk_list(segments, chunk_size))
    /\ LET image_chunk == chunk_list(segments, chunk_size)[idx + 1]
       IN  \E response \in Responses(image_chunk) :
              /\ out' = out \o (IF response.kind # "None"
                                THEN parse_and_format_response(image_chunk,
                                                               response)
                                ELSE fallback_chunk(image_chunk))
              /\ log' = Append(log,
                            [response |-> response.kind,
                             described |-> DOMAIN description_map(
                                 text_block(response), <<>>, no_filename)])
    /\ idx' = idx + 1
    /\ UNCHANGED <<pc, elements, id_counter, segments, policy, child, files,
                   done, exported, delay, total_waited>>

\* lines 283-285: response.json is written
SaveResponse ==
    /\ pc = "chunks"
    /\ idx >= Len(chunk_list(segments, chunk_size))
    /\ exported' = out
    /\ pc' = "saved"
    /\ UNCHANGED <<elements, idx, out, id_counter, segments, policy, child,
                   files, done, zvars>>

NextGroup == SortPngs \/ SendChunk \/ SaveResponse

SpecGroup == InitGroup /\ [][NextGroup]_vars

SegmentedPngs == {files[k] : k \in {j \in 1 .. Len(files) : ~is_full(files[j])}}

\* C30: the written response list has exactly one entry per non-full PNG of
\* the group, in ascending element-number order, whatever each chunk's
\* request gave; an image whose chunk gave no description for it carries
\* "No description available."
C30_OneEntryPerPngInOrder ==
    pc = "saved" =>
        /\ Len(exported) = Cardinality(SegmentedPngs)
        /\ {exported[k].id : k \in 1 .. Len(exported)} = SegmentedPngs
        /\ \A j, k \in 1 .. Len(exported) :
              j < k => extract_element_number(exported[j].id)
                           <= extract_element_number(exported[k].id)
        /\ \A k \in 1 .. Len(exported) :
              LET c == ((k - 1) \div chunk_size) + 1
              IN  exported[k].description =
                      IF /\ log[c].response = "text"
                         /\ exported[k].id \in log[c].described
                      THEN "a shape" ELSE no_description

C30_Witness ==
    /\ pc = "saved"
    /\ Len(exported) = 3
    /\ is_full(files[1])
    /\ extract_element_number(files[2]) > extract_element_number(files[3])
    /\ log[1].response = "text"
    /\ exported[1].description = "a shape"
    /\ exported[2].description = no_description
    /\ log[2].response = "None"

====
